---- MODULE Spec2Model ----
(***************************************************************************)
(* Monte Carlo estimation of pi: the point sampler, the containment test,  *)
(* the two estimate strategies (eager loop and deferred polars pipeline),  *)
(* the multi-run aggregation and the hierarchical seed example.            *)
(*                                                                         *)
(* Numbers.  Python floats and polars Float64 columns are binary floating  *)
(* point with round-to-nearest-even.  A float is the record [m, e] of       *)
(* value m * 2^e with m odd (or m = 0, e = 0), so equal values are equal   *)
(* records.  Every arithmetic operation rounds its exact result to         *)
(* MantBits significant bits.  Coordinates are fixed point: a coordinate   *)
(* c stands for the real c / RawRange.                                     *)
(*                                                                         *)
(* Random generators.  numpy's default_rng(seed) is a fixed function from  *)
(* the seed to an output stream; BitGen(key, pos) stands for it.  A        *)
(* generator is the record [key, pos, shared]; drawing advances pos.       *)
(***************************************************************************)
EXTENDS Integers, Sequences, FiniteSets, TLC

\* ---------------------------------------------------------------- bounds
MaxN == 3          \* largest n_samples of a run
MaxSeed == 2       \* seeds of the callers are 0..MaxSeed
RawRange == 8      \* distinct outputs of one generator draw
MantBits == 17     \* significant bits of a float
MaxSims == 3       \* largest number of simulations (child seeds, runs)
MaxYears == 2      \* largest years_to_simulate
MaxRows == 5       \* longest run result handed to the aggregation step alone
MaxStepSeed == 2   \* seeds of the runs handed to the aggregation step alone
MaxNeg == 1        \* sample counts go down to -MaxNeg
MaxLong == 200     \* largest n_samples of the long runs
LongSpan == 7      \* the long runs have MaxLong - LongSpan .. MaxLong samples

None == 0 - 1      \* Python's None where an int | None is expected
Seeds == 0 .. MaxSeed
EntropyKeys == {MaxSeed + 1, MaxSeed + 2}   \* what the OS entropy pool may yield
Slots == {"a", "b"}                         \* calls that may overlap

\* ---------------------------------------------------------------- floats
Pow2(k) == 2 ^ k

Zero == [m |-> 0, e |-> 0]
Inf == [m |-> 0, e |-> 1]      \* x / 0 for x > 0 in a Float64 column
NaN == [m |-> 0, e |-> 2]      \* 0 / 0 in a Float64 column

IsFinite(a) == a.m # 0 \/ a.e = 0

RECURSIVE Canon(_, _)
\* The record of m * 2^e with the trailing zero bits of m moved into e.
Canon(m, e) ==
    IF m = 0 THEN Zero
    ELSE IF m % 2 = 0 THEN Canon(m \div 2, e + 1)
    ELSE [m |-> m, e |-> e]

RECURSIVE RoundAbs(_, _, _)
\* (n / d) * 2^e for n >= 0, d > 0, rounded to MantBits bits, ties to even.
\* The quotient is scaled into [2^(MantBits-1), 2^MantBits) and rounded there;
\* an integer of at most MantBits bits is exact.
RoundAbs(n, d, e) ==
    IF n = 0 THEN Zero
    ELSE IF d = 1 /\ n < Pow2(MantBits) THEN Canon(n, e)
    ELSE IF n < d THEN RoundAbs(n * Pow2(MantBits - 1), d, e - (MantBits - 1))
    ELSE IF n < d * Pow2(MantBits - 1) THEN RoundAbs(2 * n, d, e - 1)
    ELSE IF n >= d * Pow2(MantBits) THEN RoundAbs(n, 2 * d, e + 1)
    ELSE LET q == n \div d
             r == n % d
             up == 2 * r > d \/ (2 * r = d /\ q % 2 = 1)
         IN Canon(IF up THEN q + 1 ELSE q, e)

Neg(a) == [a EXCEPT !.m = 0 - @]

\* The float nearest to (n / d) * 2^e, for d # 0.
RoundRat(n, d, e) ==
    IF (n < 0) = (d < 0)
    THEN RoundAbs(IF n < 0 THEN 0 - n ELSE n, IF d < 0 THEN 0 - d ELSE d, e)
    ELSE Neg(RoundAbs(IF n < 0 THEN 0 - n ELSE n, IF d < 0 THEN 0 - d ELSE d, e))

FromInt(k) == RoundRat(k, 1, 0)

\* a / b on floats (b = 0 gives inf or nan, as IEEE division does).
FDiv(a, b) ==
    IF ~IsFinite(a) \/ ~IsFinite(b) THEN NaN
    ELSE IF b.m = 0 THEN (IF a.m = 0 THEN NaN ELSE Inf)
    ELSE RoundRat(a.m, b.m, a.e - b.e)

FMul(a, b) ==
    IF ~IsFinite(a) \/ ~IsFinite(b) THEN NaN
    ELSE RoundRat(a.m * b.m, 1, a.e + b.e)

FAdd(a, b) ==
    IF ~IsFinite(a) \/ ~IsFinite(b) THEN NaN
    ELSE LET lo == IF a.e < b.e THEN a.e ELSE b.e
         IN RoundRat(a.m * Pow2(a.e - lo) + b.m * Pow2(b.e - lo), 1, lo)

\* a <= b on finite floats.
FLe(a, b) ==
    LET lo == IF a.e < b.e THEN a.e ELSE b.e
    IN a.m * Pow2(a.e - lo) <= b.m * Pow2(b.e - lo)

\* ---------------------------------------------------------------- variables
VARIABLES
    regions,      \* the module-level SQUARE and INSCRIBED_CIRCLE
    labels,       \* the x_label and y_label the caller passes
    global_rng,   \* numpy's process-wide generator, which no function here uses
    run,          \* per slot, the activation record of the call in progress
    multi,        \* the activation record of multiple_monte_carlo_example_polars
    plot          \* the activation record of plot_monte_carlo_points

vars == <<regions, labels, global_rng, run, multi, plot>>

\* ---------------------------------------------------------------- generators
RECURSIVE PowMod(_, _, _)
\* a^k modulo m, by repeated squaring.
PowMod(a, k, m) ==
    IF k = 0 THEN 1 % m
    ELSE LET h == PowMod(a, k \div 2, m)
         IN IF k % 2 = 0 THEN (h * h) % m ELSE (((h * h) % m) * a) % m

\* The generator's internal state after pos + 1 steps s -> (5 * s + 3) % 64
\* from the seeded state key % 64: with p = 5^(pos + 1), the state is
\* p * s + 3 * (p - 1) / 4 modulo 64.
BitState(key, pos) ==
    LET p == PowMod(5, pos + 1, 256)
    IN (p * (key % 64) + 3 * ((p - 1) \div 4)) % 64

\* The pos-th output (pos = 0, 1, ...) of the generator seeded with key.
BitGen(key, pos) == (BitState(key, pos) * RawRange) \div 64

default_rng_unseeded(seed, entropy) == [key |-> entropy, pos |-> 0, shared |-> FALSE]

default_rng_global(seed, entropy) == global_rng

\* np.random.default_rng(seed=seed): a fresh generator, seeded from the OS
\* entropy pool when seed is None.
default_rng(seed, entropy) ==
    [key |-> IF seed = None THEN entropy ELSE seed, pos |-> 0, shared |-> FALSE]

\* The generator after size further draws.
Advance(rng, size) == [rng EXCEPT !.pos = @ + size]

uniform_raises_never(size) == FALSE

\* rng.uniform(low, high, size) raises ValueError ("negative dimensions are
\* not allowed") for a negative size.
uniform_raises(size) == size < 0

\* rng.uniform(low, high, size): size reals in [low, high).
uniform(rng, low, high, size) ==
    [i \in 1 .. size |->
        low + ((high - low) * BitGen(rng.key, rng.pos + i - 1)) \div RawRange]

\* rng.integers(low, high, size).tolist(): size integers in [low, high).
integers(rng, low, high, size) ==
    [i \in 1 .. size |->
        low + ((high - low) * BitGen(rng.key, rng.pos + i - 1)) \div RawRange]

\* ---------------------------------------------------------------- regions
SquareSide == 4
CircleRadius == 2

\* Polygon(((0, 0), (0, 4), (4, 4), (4, 0))), in fixed point.
SQUARE ==
    LET s == SquareSide * RawRange
    IN <<<<0, 0>>, <<0, s>>, <<s, s>>, <<s, 0>>>>

Min(S) == CHOOSE x \in S : \A y \in S : x <= y
Max(S) == CHOOSE x \in S : \A y \in S : x >= y

\* polygon.bounds: (minx, miny, maxx, maxy).
bounds(polygon) ==
    LET xs == {polygon[i][1] : i \in DOMAIN polygon}
        ys == {polygon[i][2] : i \in DOMAIN polygon}
    IN [minx |-> Min(xs), miny |-> Min(ys), maxx |-> Max(xs), maxy |-> Max(ys)]

\* polygon.centroid of an axis-aligned rectangle.
centroid(polygon) ==
    LET b == bounds(polygon)
    IN <<(b.minx + b.maxx) \div 2, (b.miny + b.maxy) \div 2>>

\* SQUARE.centroid.buffer(distance=2, quad_segs=1000): the polygon inscribed
\* in the circle of that radius.  At the grid points of the model, being in
\* its interior is being strictly inside the circle.
INSCRIBED_CIRCLE ==
    [center |-> centroid(SQUARE), radius |-> CircleRadius * RawRange]

\* shapely.contains(polygon, pt): pt lies in the interior of polygon.
contains(polygon, pt) ==
    LET dx == pt[1] - polygon.center[1]
        dy == pt[2] - polygon.center[2]
    IN dx * dx + dy * dy < polygon.radius * polygon.radius

\* ---------------------------------------------------------------- sampler
generate_random_points_one_more(square_polygon, n_points, seed, entropy) ==
    LET rng == default_rng(seed, entropy)
        b == bounds(square_polygon)
        k == n_points + 1
        random_x == uniform(rng, b.minx, b.maxx, k)
        random_y == uniform(Advance(rng, k), b.miny, b.maxy, k)
    IN [points |-> [i \in 1 .. k |-> <<random_x[i], random_y[i]>>],
        rng |-> Advance(rng, 2 * k),
        raised |-> IF uniform_raises(n_points) THEN "ValueError" ELSE "none"]

generate_random_points_legacy(square_polygon, n_points, seed, entropy) ==
    LET rng == global_rng
        b == bounds(square_polygon)
        random_x == uniform(rng, b.minx, b.maxx, n_points)
        random_y == uniform(Advance(rng, n_points), b.miny, b.maxy, n_points)
    IN [points |-> [i \in 1 .. n_points |-> <<random_x[i], random_y[i]>>],
        rng |-> Advance(rng, 2 * n_points),
        raised |-> IF uniform_raises(n_points) THEN "ValueError" ELSE "none"]

\* generate_random_points: the sampled points, the generator as the call
\* leaves it (the local generator dies with the call), and what the call
\* raises: line 57 raises before any point exists when n_points is negative.
generate_random_points(square_polygon, n_points, seed, entropy) ==
    LET rng == default_rng(seed, entropy)
        b == bounds(square_polygon)
        random_x == uniform(rng, b.minx, b.maxx, n_points)
        random_y == uniform(Advance(rng, n_points), b.miny, b.maxy, n_points)
    IN [points |-> [i \in 1 .. n_points |-> <<random_x[i], random_y[i]>>],
        rng |-> Advance(rng, 2 * n_points),
        raised |-> IF uniform_raises(n_points) THEN "ValueError" ELSE "none"]

\* ---------------------------------------------------------------- frames
\* A frame is a function from column names to columns of one length; a lazy
\* frame is the data it starts from and the plan of steps not yet evaluated.
\* The result of evaluating a plan is [raised, cols].
XLabels == {"observations", "samples"}
YLabels == {"pi_estimate", "estimate"}

NoFrame == <<>>

Height(cols) ==
    IF DOMAIN cols = {} THEN 0 ELSE Len(cols[CHOOSE c \in DOMAIN cols : TRUE])

\* df.with_columns(expr.alias(name)): name is added, or replaced if present.
WithColumn(cols, name, col) ==
    [c \in DOMAIN cols \cup {name} |-> IF c = name THEN col ELSE cols[c]]

\* .cast(pl.Int8) of a Boolean: 1 or 0, in 8 bits two's complement.
CastInt8_allones(b) == IF b THEN 0 - 1 ELSE 0

CastInt8(b) == (((IF b THEN 1 ELSE 0) + 128) % 256) - 128

\* A sum kept in 8 bits, two's complement.
Wrap8(k) == ((k + 128) % 256) - 128

RECURSIVE SumRange(_, _, _)
\* col[lo] + ... + col[hi], halving the range.
SumRange(col, lo, hi) ==
    IF lo > hi THEN 0
    ELSE IF lo = hi THEN col[lo]
    ELSE LET mid == (lo + hi) \div 2
         IN SumRange(col, lo, mid) + SumRange(col, mid + 1, hi)

CumSum_int8(col) == [i \in 1 .. Len(col) |-> Wrap8(SumRange(col, 1, i))]

\* Expr.cum_sum(): the prefix sums (polars sums an Int8 column as Int64).
CumSum(col) == [i \in 1 .. Len(col) |-> SumRange(col, 1, i)]

arange_from_zero(lo, hi) == [i \in 1 .. (hi - lo) |-> i - 1]

\* pl.arange(lo, hi): lo, lo + 1, ..., hi - 1.
arange(lo, hi) == [i \in 1 .. (hi - lo) |-> lo + i - 1]

EstimateFactor == 4

\* line 200: 4 * (pl.col("inside_cumsum") / pl.col(x_label)) for one row.  Both
\* Int64 values become Float64, are divided, and the quotient is multiplied.
ratio(inside_cumsum, total) ==
    FMul(FromInt(EstimateFactor), FDiv(FromInt(inside_cumsum), FromInt(total)))

estimation_floor(inside_circle, observation_count) ==
    FromInt((EstimateFactor * inside_circle) \div observation_count)

\* line 120: 4 * (inside_circle / observation_count) for observation_count > 0.
\* Python's int / int is the correctly rounded quotient; 4 * float rounds again.
estimation(inside_circle, observation_count) ==
    FMul(FromInt(EstimateFactor), RoundRat(inside_circle, observation_count, 0))

\* One step of a plan applied to the columns so far.
EvalStep(cols, step) ==
    IF step.op = "map_contains" THEN
        \* lines 179-187: contains(...) per point, cast to Int8, as "inside"
        IF "geom" \notin DOMAIN cols THEN [raised |-> "ColumnNotFoundError", cols |-> NoFrame]
        ELSE [raised |-> "none",
              cols |-> WithColumn(cols, "inside",
                  [i \in 1 .. Height(cols) |->
                      CastInt8(contains(step.polygon, cols["geom"][i]))])]
    ELSE IF step.op = "cumsum_arange" THEN
        \* lines 191-196: both expressions read the frame as it was
        IF "inside" \notin DOMAIN cols THEN [raised |-> "ColumnNotFoundError", cols |-> NoFrame]
        ELSE [raised |-> "none",
              cols |-> WithColumn(
                  WithColumn(cols, "inside_cumsum", CumSum(cols["inside"])),
                  step.x, arange(1, Height(cols) + 1))]
    ELSE IF step.op = "ratio" THEN
        \* lines 199-201
        IF {"inside_cumsum", step.x} \subseteq DOMAIN cols
        THEN [raised |-> "none",
              cols |-> WithColumn(cols, step.y,
                  [i \in 1 .. Height(cols) |->
                      ratio(cols["inside_cumsum"][i], cols[step.x][i])])]
        ELSE [raised |-> "ColumnNotFoundError", cols |-> NoFrame]
    ELSE
        \* "select": keep the named columns
        IF step.columns \subseteq DOMAIN cols
        THEN [raised |-> "none", cols |-> [c \in step.columns |-> cols[c]]]
        ELSE [raised |-> "ColumnNotFoundError", cols |-> NoFrame]

RECURSIVE EvalPlan(_, _)
EvalPlan(cols, plan) ==
    IF Len(plan) = 0 THEN [raised |-> "none", cols |-> cols]
    ELSE LET r == EvalStep(cols, Head(plan))
         IN IF r.raised # "none" THEN r ELSE EvalPlan(r.cols, Tail(plan))

\* LazyFrame.collect(): the plan evaluated over the data.
collect(lf) == EvalPlan(lf.data, lf.plan)

\* pl.LazyFrame(data={"geom": points})
LazyFrame(points) == [data |-> [c \in {"geom"} |-> points], plan |-> <<>>]

NoLazyFrame == [data |-> NoFrame, plan |-> <<>>]

\* The lazy frame generate_estimates_polars builds from the sampled points.
estimates_plan(points, inscribed_circle_polygon, x_label, y_label) ==
    [data |-> LazyFrame(points).data,
     plan |-> << [op |-> "map_contains", polygon |-> inscribed_circle_polygon],
                 [op |-> "cumsum_arange", x |-> x_label],
                 [op |-> "ratio", x |-> x_label, y |-> y_label] >>]

\* pd.DataFrame({x_label: observations, y_label: estimates})
DataFrame(x_label, observations, y_label, estimates) ==
    [c \in {x_label, y_label} |-> IF c = y_label THEN estimates ELSE observations]

\* ---------------------------------------------------------------- calls
\* The activation record of a slot with no call in it.
NoCall ==
    [fn |-> "none", pc |-> "idle", seed |-> None, n |-> 0, years |-> 0,
     return_lazy_frame |-> FALSE,
     points |-> <<>>, it |-> 0,
     observation_count |-> 0, inside_circle |-> 0,
     estimates |-> <<>>, observations |-> <<>>,
     lf |-> NoLazyFrame, df |-> NoFrame,
     principle_seeds |-> <<>>, yearly |-> <<>>,
     raised |-> "none"]

Free(r) == run[r].pc = "idle"


\* What a call leaves in the process-wide generator: nothing, unless the
\* generator it drew from is that generator.
GlobalAfter(rng) == IF rng.shared THEN rng ELSE global_rng

\* generate_estimates_for_loop, lines 97-106: the locals, and the points.
ForLoopCall(r, n_samples, seed, entropy) ==
    /\ Free(r)
    /\ LET g == generate_random_points(regions.square, n_samples, seed, entropy)
       IN /\ run' = [run EXCEPT ![r] =
                IF g.raised # "none"
                THEN [NoCall EXCEPT !.fn = "generate_estimates_for_loop",
                                    !.pc = "done",
                                    !.seed = seed, !.n = n_samples,
                                    !.raised = g.raised]
                ELSE [NoCall EXCEPT !.fn = "generate_estimates_for_loop",
                                    !.pc = "loop",
                                    !.seed = seed, !.n = n_samples,
                                    !.points = g.points]]
          /\ global_rng' = GlobalAfter(g.rng)
    /\ UNCHANGED <<regions, labels, multi, plot>>

\* lines 109-124: one iteration of the loop over the points.
ForLoopIter(r) ==
    /\ run[r].fn = "generate_estimates_for_loop"
    /\ run[r].pc = "loop"
    /\ run[r].it < Len(run[r].points)
    /\ LET pt == run[r].points[run[r].it + 1]
           count == run[r].observation_count + 1
           inside == IF contains(regions.circle, pt)
                     THEN run[r].inside_circle + 1
                     ELSE run[r].inside_circle
       IN run' = [run EXCEPT ![r] =
              IF count = 0
              THEN [@ EXCEPT !.it = @ + 1, !.observation_count = count,
                             !.inside_circle = inside,
                             !.pc = "done", !.raised = "ZeroDivisionError"]
              ELSE [@ EXCEPT !.it = @ + 1, !.observation_count = count,
                             !.inside_circle = inside,
                             !.estimates = Append(@, estimation(inside, count)),
                             !.observations = Append(@, count)]]
    /\ UNCHANGED <<regions, labels, global_rng, multi, plot>>

\* lines 126-129: the loop is over; the frame is built and returned.
ForLoopReturn(r) ==
    /\ run[r].fn = "generate_estimates_for_loop"
    /\ run[r].pc = "loop"
    /\ run[r].it = Len(run[r].points)
    /\ run' = [run EXCEPT ![r] =
           [@ EXCEPT !.pc = "done",
                     !.df = DataFrame(labels.x, run[r].observations,
                                      labels.y, run[r].estimates)]]
    /\ UNCHANGED <<regions, labels, global_rng, multi, plot>>

\* generate_estimates_polars, lines 169-205: the points are sampled (at once,
\* as the argument of pl.LazyFrame), the plan is built, and with
\* return_lazy_frame the lazy frame is the result.
PolarsCall(r, n_samples, seed, entropy, return_lazy_frame) ==
    /\ Free(r)
    /\ LET g == generate_random_points(regions.square, n_samples, seed, entropy)
           lf == estimates_plan(g.points, regions.circle, labels.x, labels.y)
       IN /\ run' = [run EXCEPT ![r] =
                IF g.raised # "none"
                THEN [NoCall EXCEPT !.fn = "generate_estimates_polars",
                                    !.pc = "done",
                                    !.seed = seed, !.n = n_samples,
                                    !.return_lazy_frame = return_lazy_frame,
                                    !.raised = g.raised]
                ELSE [NoCall EXCEPT !.fn = "generate_estimates_polars",
                                    !.pc = IF return_lazy_frame THEN "done" ELSE "lazy",
                                    !.seed = seed, !.n = n_samples,
                                    !.return_lazy_frame = return_lazy_frame,
                                    !.points = g.points,
                                    !.lf = lf]]
          /\ global_rng' = GlobalAfter(g.rng)
    /\ UNCHANGED <<regions, labels, multi, plot>>

\* line 207: df.collect().to_pandas()
PolarsCollect(r) ==
    /\ run[r].fn = "generate_estimates_polars"
    /\ run[r].pc = "lazy"
    /\ LET res == collect(run[r].lf)
       IN run' = [run EXCEPT ![r] =
              [@ EXCEPT !.pc = "done", !.df = res.cols, !.raised = res.raised]]
    /\ UNCHANGED <<regions, labels, global_rng, multi, plot>>

\* ---------------------------------------------------------------- seed hierarchy
SeedLow == 1
SeedHigh == 100

\* random_seed_example, lines 34-48: the principal seeds are drawn from a
\* generator seeded with main_seed, and printed.
SeedExampleCall(r, main_seed, number_of_simulations, years_to_simulate, entropy) ==
    /\ Free(r)
    /\ LET main_rng == default_rng(main_seed, entropy)
           principle_seeds ==
               integers(main_rng, SeedLow, SeedHigh, number_of_simulations)
       IN /\ run' = [run EXCEPT ![r] =
                [NoCall EXCEPT !.fn = "random_seed_example",
                               !.pc = "children",
                               !.seed = main_seed,
                               !.n = number_of_simulations,
                               !.years = years_to_simulate,
                               !.principle_seeds = principle_seeds]]
          /\ global_rng' = GlobalAfter(Advance(main_rng, number_of_simulations))
    /\ UNCHANGED <<regions, labels, multi, plot>>

\* lines 52-60: one iteration of the loop over the principal seeds; the yearly
\* seeds of the branch are drawn from a generator seeded with its seed.
SeedExampleChild(r, entropy) ==
    /\ run[r].fn = "random_seed_example"
    /\ run[r].pc = "children"
    /\ run[r].it < Len(run[r].principle_seeds)
    /\ LET current_seed == run[r].principle_seeds[run[r].it + 1]
           child_rng == default_rng(current_seed, entropy)
           yearly_seeds == integers(child_rng, SeedLow, SeedHigh, run[r].years)
       IN /\ run' = [run EXCEPT ![r] =
                [@ EXCEPT !.it = @ + 1, !.yearly = Append(@, yearly_seeds)]]
          /\ global_rng' = GlobalAfter(Advance(child_rng, run[r].years))
    /\ UNCHANGED <<regions, labels, multi, plot>>

\* The loop is over and the function returns.
SeedExampleReturn(r) ==
    /\ run[r].fn = "random_seed_example"
    /\ run[r].pc = "children"
    /\ run[r].it = Len(run[r].principle_seeds)
    /\ run' = [run EXCEPT ![r] = [@ EXCEPT !.pc = "done"]]
    /\ UNCHANGED <<regions, labels, global_rng, multi, plot>>

\* ---------------------------------------------------------------- aggregation
RECURSIVE FSum(_)
\* The sum of a Float64 column, added up from 0.0 in row order.
FSum(col) ==
    IF Len(col) = 0 THEN Zero
    ELSE FAdd(FSum(SubSeq(col, 1, Len(col) - 1)), col[Len(col)])

mean_no_divide(col) == FSum(col)

\* The mean of a group's values: their sum divided by their number.
mean(col) == FDiv(FSum(col), FromInt(Len(col)))

RECURSIVE ConcatColumn(_, _)
ConcatColumn(frames, c) ==
    IF Len(frames) = 0 THEN <<>>
    ELSE ConcatColumn(SubSeq(frames, 1, Len(frames) - 1), c) \o frames[Len(frames)][c]

concat_truncated(frames) ==
    LET shortest == Min({Height(frames[i]) : i \in DOMAIN frames})
    IN [c \in DOMAIN frames[1] |->
           ConcatColumn([i \in DOMAIN frames |->
                            [d \in DOMAIN frames[i] |-> SubSeq(frames[i][d], 1, shortest)]],
                        c)]

\* pl.concat(items): the rows of the frames, one frame after the other.
concat(frames) == [c \in DOMAIN frames[1] |-> ConcatColumn(frames, c)]

\* The values of column c in the rows whose key is k, in row order.
GroupValues(cols, key, k, c) ==
    LET rows == SelectSeq([i \in 1 .. Height(cols) |-> i],
                          LAMBDA i : cols[key][i] = k)
    IN [j \in 1 .. Len(rows) |-> cols[c][rows[j]]]

\* .group_by(key).mean(): one row per distinct key, in no particular order,
\* holding the key and the mean of every other column over the key's rows.
group_by_mean(cols, key) ==
    { [c \in DOMAIN cols |->
          IF c = key THEN k ELSE mean(GroupValues(cols, key, k, c))]
      : k \in {cols[key][i] : i \in 1 .. Height(cols)} }

RECURSIVE SortDescending(_, _)
SortDescending(rows, key) ==
    IF rows = {} THEN <<>>
    ELSE LET last == CHOOSE x \in rows : \A y \in rows : x[key] <= y[key]
         IN Append(SortDescending(rows \ {last}, key), last)

RECURSIVE SortAscending(_, _)
\* The rows ordered by ascending key (the keys of a group_by are distinct).
SortAscending(rows, key) ==
    IF rows = {} THEN <<>>
    ELSE LET last == CHOOSE x \in rows : \A y \in rows : x[key] >= y[key]
         IN Append(SortAscending(rows \ {last}, key), last)

sort_descending(rows, key, columns) ==
    LET ordered == SortDescending(rows, key)
    IN [c \in columns |-> [i \in 1 .. Len(ordered) |-> ordered[i][c]]]

\* .sort(by=key, descending=False), as a frame with the given columns.
sort(rows, key, columns) ==
    LET ordered == SortAscending(rows, key)
    IN [c \in columns |-> [i \in 1 .. Len(ordered) |-> ordered[i][c]]]

\* lf.select(columns): the step is added to the plan.
select(lf, columns) ==
    [lf EXCEPT !.plan = Append(@, [op |-> "select", columns |-> columns])]

\* multi_example_polars.py lines 102-111: concat, group_by, mean, sort,
\* collect.  pl.concat of an empty list raises ValueError; a column missing
\* from a plan raises when the plan is collected.
aggregate(estimates_df_list) ==
    IF Len(estimates_df_list) = 0 THEN [raised |-> "ValueError", cols |-> NoFrame]
    ELSE LET parts == [i \in DOMAIN estimates_df_list |-> collect(estimates_df_list[i])]
         IN IF \E i \in DOMAIN parts : parts[i].raised # "none"
            THEN [raised |-> "ColumnNotFoundError", cols |-> NoFrame]
            ELSE LET all == concat([i \in DOMAIN parts |-> parts[i].cols])
                 IN [raised |-> "none",
                     cols |-> sort(group_by_mean(all, "observations"),
                                   "observations", DOMAIN all)]

\* create_seed_list(size, seed): size child seeds in [1, 100) from a generator
\* seeded with seed.
create_seed_list(size, seed, entropy) ==
    integers(default_rng(seed, entropy), SeedLow, SeedHigh, size)

NoFile == ""       \* file=None
Files == {NoFile, "estimates.html"}

NoMulti ==
    [pc |-> "idle", seed |-> None, n_samples |-> 0, n_simulations |-> 0,
     file |-> NoFile, seed_list |-> <<>>, it |-> 0,
     estimates_df_list |-> <<>>,
     multiple_estimate_df |-> NoFrame, figure |-> NoFrame, raised |-> "none"]

\* multiple_monte_carlo_example_polars, lines 63-67.
MultiCall(n_samples, n_simulations, seed, file, entropy) ==
    /\ multi.pc = "idle"
    /\ multi' = [NoMulti EXCEPT !.pc = "runs",
                                !.seed = seed,
                                !.n_samples = n_samples,
                                !.n_simulations = n_simulations,
                                !.file = file,
                                !.seed_list = create_seed_list(n_simulations, seed, entropy)]
    /\ global_rng' = GlobalAfter(Advance(default_rng(seed, entropy), n_simulations))
    /\ UNCHANGED <<regions, labels, run, plot>>

\* lines 70-88: one simulation; its lazy frame, cut down to the two columns,
\* is appended to the list.
MultiRun(entropy) ==
    /\ multi.pc = "runs"
    /\ multi.it < Len(multi.seed_list)
    /\ LET s == multi.seed_list[multi.it + 1]
           g == generate_random_points(regions.square, multi.n_samples, s, entropy)
           estimate_df == estimates_plan(g.points, regions.circle, labels.x, labels.y)
       IN /\ multi' =
                IF g.raised # "none"
                THEN [multi EXCEPT !.pc = "done", !.raised = g.raised]
                ELSE [multi EXCEPT
                        !.it = @ + 1,
                        !.estimates_df_list =
                            Append(@, select(estimate_df, {"observations", "pi_estimate"}))]
          /\ global_rng' = GlobalAfter(g.rng)
    /\ UNCHANGED <<regions, labels, run, plot>>

\* lines 99-111: the aggregation step.
MultiAggregate ==
    /\ multi.pc = "runs"
    /\ multi.it = Len(multi.seed_list)
    /\ LET res == aggregate(multi.estimates_df_list)
       IN multi' = [multi EXCEPT
              !.pc = IF res.raised # "none" THEN "done"
                     ELSE IF multi.file # NoFile THEN "figure" ELSE "done",
              !.multiple_estimate_df = res.cols,
              !.raised = res.raised]
    /\ UNCHANGED <<regions, labels, global_rng, run, plot>>

\* lines 113-120 and figures.py lines 39-41: the scatter of y_label over x_label.
MultiFigure ==
    /\ multi.pc = "figure"
    /\ multi' =
         IF {labels.x, labels.y} \subseteq DOMAIN multi.multiple_estimate_df
         THEN [multi EXCEPT !.pc = "done",
                            !.figure = [c \in {"x", "y"} |->
                                IF c = "x" THEN multi.multiple_estimate_df[labels.x]
                                ELSE multi.multiple_estimate_df[labels.y]]]
         ELSE [multi EXCEPT !.pc = "done", !.raised = "ValueError"]
    /\ UNCHANGED <<regions, labels, global_rng, run, plot>>

\* ---------------------------------------------------------------- point plot
NoPlot ==
    [pc |-> "idle", requested |-> 0, observations |-> 0, df_subset |-> NoFrame,
     points_inside |-> 0, pi_estimate |-> Zero,
     inside_points |-> <<>>, outside_points |-> <<>>, raised |-> "none"]

\* Python's min of two ints.
min(a, b) == IF b < a THEN b ELSE a

\* estimate_df[estimate_df["observations"] <= observations]
\*     .copy().reset_index(drop=True)
filter_observations(estimate_df, observations) ==
    LET rows == SelectSeq([i \in 1 .. Height(estimate_df) |-> i],
                          LAMBDA i : estimate_df["observations"][i] <= observations)
    IN [c \in DOMAIN estimate_df |->
           [j \in 1 .. Len(rows) |-> estimate_df[c][rows[j]]]]

\* show_circle.py, plot_monte_carlo_points, lines 57-115, on the collected
\* result of the deferred run in slot r.  A column the frame lacks raises
\* KeyError; .iloc[-1] on an empty column raises IndexError.
PlotCall(r, observations) ==
    /\ plot.pc = "idle"
    /\ run[r].fn = "generate_estimates_polars"
    /\ run[r].pc = "done"
    /\ run[r].raised = "none"
    /\ ~run[r].return_lazy_frame
    /\ LET estimate_df == run[r].df
           clamped == min(observations, Height(estimate_df))
       IN plot' =
            IF ~({"observations", "inside", "inside_cumsum", "pi_estimate", "geom"}
                    \subseteq DOMAIN estimate_df)
            THEN [NoPlot EXCEPT !.pc = "done", !.requested = observations,
                                !.observations = clamped, !.raised = "KeyError"]
            ELSE LET df_subset == filter_observations(estimate_df, clamped)
                     last == Height(df_subset)
                 IN IF last = 0
                    THEN [NoPlot EXCEPT !.pc = "done", !.requested = observations,
                                        !.observations = clamped,
                                        !.df_subset = df_subset,
                                        !.raised = "IndexError"]
                    ELSE [NoPlot EXCEPT
                            !.pc = "done",
                            !.requested = observations,
                            !.observations = clamped,
                            !.df_subset = df_subset,
                            !.points_inside = df_subset["inside_cumsum"][last],
                            !.pi_estimate = df_subset["pi_estimate"][last],
                            !.inside_points =
                                SelectSeq(df_subset["geom"],
                                          LAMBDA pt : contains(regions.circle, pt)),
                            !.outside_points =
                                SelectSeq(df_subset["geom"],
                                          LAMBDA pt : ~contains(regions.circle, pt))]
    /\ UNCHANGED <<regions, labels, global_rng, run, multi>>

\* ---------------------------------------------------------------- specification
Init ==
    /\ regions = [square |-> SQUARE, circle |-> INSCRIBED_CIRCLE]
    /\ labels \in [x : XLabels, y : YLabels]
    /\ global_rng = [key |-> 0, pos |-> 0, shared |-> TRUE]
    /\ run = [r \in Slots |-> NoCall]
    /\ multi = NoMulti
    /\ plot = NoPlot

Next ==
    \/ \E r \in Slots, n \in 0 .. MaxN, seed \in Seeds \cup {None}, e \in EntropyKeys :
          ForLoopCall(r, n, seed, e)
    \/ \E r \in Slots : ForLoopIter(r)
    \/ \E r \in Slots : ForLoopReturn(r)
    \/ \E r \in Slots, n \in 0 .. MaxN, seed \in Seeds \cup {None}, e \in EntropyKeys,
          lazy \in BOOLEAN :
          PolarsCall(r, n, seed, e, lazy)
    \/ \E r \in Slots : PolarsCollect(r)

Spec == Init /\ [][Next]_vars

\* The estimate runs again, with sample counts below zero among the inputs.
NextNeg ==
    \/ \E r \in Slots, n \in (0 - MaxNeg) .. MaxN, seed \in Seeds \cup {None},
          e \in EntropyKeys :
          ForLoopCall(r, n, seed, e)
    \/ \E r \in Slots : ForLoopIter(r)
    \/ \E r \in Slots : ForLoopReturn(r)
    \/ \E r \in Slots, n \in (0 - MaxNeg) .. MaxN, seed \in Seeds \cup {None},
          e \in EntropyKeys, lazy \in BOOLEAN :
          PolarsCall(r, n, seed, e, lazy)
    \/ \E r \in Slots : PolarsCollect(r)

SpecNeg == Init /\ [][NextNeg]_vars

\* A deferred run, and a plot of its first points.
NextPlot ==
    \/ \E n \in 0 .. MaxN, seed \in Seeds \cup {None}, e \in EntropyKeys,
          lazy \in BOOLEAN :
          PolarsCall("a", n, seed, e, lazy)
    \/ PolarsCollect("a")
    \/ \E observations \in (0 - MaxNeg) .. (MaxN + 1) : PlotCall("a", observations)

SpecPlot == Init /\ [][NextPlot]_vars

\* The seed example: two calls of random_seed_example that may overlap.
InitSeed ==
    /\ regions = [square |-> SQUARE, circle |-> INSCRIBED_CIRCLE]
    /\ labels = [x |-> "observations", y |-> "pi_estimate"]
    /\ global_rng = [key |-> 0, pos |-> 0, shared |-> TRUE]
    /\ run = [r \in Slots |-> NoCall]
    /\ multi = NoMulti
    /\ plot = NoPlot

NextSeed ==
    \/ \E r \in Slots, main_seed \in Seeds, k \in 0 .. MaxSims, years \in 0 .. MaxYears,
          e \in EntropyKeys :
          SeedExampleCall(r, main_seed, k, years, e)
    \/ \E r \in Slots, e \in EntropyKeys : SeedExampleChild(r, e)
    \/ \E r \in Slots : SeedExampleReturn(r)

SpecSeed == InitSeed /\ [][NextSeed]_vars

\* One deferred run, long enough for more than 127 points to fall inside the
\* circle.
NextLong ==
    \/ \E n \in (MaxLong - LongSpan) .. MaxLong, seed \in Seeds \cup {None},
          e \in EntropyKeys, lazy \in BOOLEAN :
          PolarsCall("a", n, seed, e, lazy)
    \/ PolarsCollect("a")

SpecLong == InitSeed /\ [][NextLong]_vars

\* One call of multiple_monte_carlo_example_polars.
NextAgg ==
    \/ \E n \in 0 .. MaxN, m \in 0 .. MaxSims, seed \in Seeds \cup {None},
          file \in Files, e \in EntropyKeys :
          MultiCall(n, m, seed, file, e)
    \/ \E e \in EntropyKeys : MultiRun(e)
    \/ MultiAggregate
    \/ MultiFigure

SpecAgg == Init /\ [][NextAgg]_vars

\* The aggregation step alone: the state at line 99 of a call that writes a
\* figure, after m runs, each with a child seed of the range create_seed_list
\* draws from and a length of its own.
StepSeeds == {s \in (SeedLow + 1) .. (SeedHigh - 1) : s <= MaxStepSeed}
StepRuns == StepSeeds \X (0 .. MaxRows)

InitStep ==
    /\ regions = [square |-> SQUARE, circle |-> INSCRIBED_CIRCLE]
    /\ labels = [x |-> "observations", y |-> "pi_estimate"]
    /\ global_rng = [key |-> 0, pos |-> 0, shared |-> TRUE]
    /\ run = [r \in Slots |-> NoCall]
    /\ plot = NoPlot
    /\ \E m \in 1 .. MaxSims :
         \E runs \in [1 .. m -> StepRuns] :
            LET pts == [i \in 1 .. m |->
                          generate_random_points(SQUARE, runs[i][2], runs[i][1],
                                                 runs[i][1]).points]
            IN multi = [NoMulti EXCEPT
                 !.pc = "runs",
                 !.n_simulations = m,
                 !.file = "estimates.html",
                 !.seed_list = [i \in 1 .. m |-> runs[i][1]],
                 !.it = m,
                 !.estimates_df_list = [i \in 1 .. m |->
                     select(estimates_plan(pts[i], INSCRIBED_CIRCLE,
                                           "observations", "pi_estimate"),
                            {"observations", "pi_estimate"})]]

NextStep == MultiAggregate \/ MultiFigure

SpecStep == InitStep /\ [][NextStep]_vars

\* Estimate runs and seed examples overlapping each other.
SpecIso == InitSeed /\ [][Next \/ NextSeed]_vars

\* ---------------------------------------------------------------- estimate runs
Called(r) == run[r].fn \in {"generate_estimates_for_loop", "generate_estimates_polars"}

\* The call in slot r has returned a collected frame.
Returned(r) ==
    /\ Called(r)
    /\ run[r].pc = "done"
    /\ run[r].raised = "none"
    /\ ~run[r].return_lazy_frame

\* The containment flag of the i-th sampled point of the call in slot r.
Flag(r, i) == contains(regions.circle, run[r].points[i])

\* The number of the first i sampled points that lie inside the circle.
InsideUpTo(r, i) == Cardinality({j \in 1 .. i : Flag(r, j)})

\* The float nearest to the real number 4 * c / i.
ExactEstimate(c, i) == RoundRat(EstimateFactor * c, i, 0)

SameInputs(r1, r2) ==
    /\ run[r1].seed # None
    /\ run[r1].seed = run[r2].seed
    /\ run[r1].n = run[r2].n

\* C1: for the same seed and sample count, the eager loop and the deferred
\* pipeline return the same (observation index, running estimate) records:
\* the same number of rows and, row by row, the same index and estimate.
C1_EagerEqualsDeferred ==
    \A r1, r2 \in Slots :
        ( /\ Returned(r1) /\ run[r1].fn = "generate_estimates_for_loop"
          /\ Returned(r2) /\ run[r2].fn = "generate_estimates_polars"
          /\ SameInputs(r1, r2) )
        => /\ Height(run[r1].df) = Height(run[r2].df)
           /\ \A i \in 1 .. Height(run[r1].df) :
                /\ run[r1].df[labels.x][i] = run[r2].df[labels.x][i]
                /\ run[r1].df[labels.y][i] = run[r2].df[labels.y][i]

\* Both strategies have returned for one seed and MaxN samples, some inside
\* the circle and some not.
C1_Witness ==
    /\ Returned("a") /\ run["a"].fn = "generate_estimates_for_loop"
    /\ Returned("b") /\ run["b"].fn = "generate_estimates_polars"
    /\ SameInputs("a", "b")
    /\ run["a"].n = MaxN
    /\ InsideUpTo("a", MaxN) \in 1 .. (MaxN - 1)
    /\ run["a"].df = [c \in {labels.x, labels.y} |-> run["b"].df[c]]

\* C2: a run over n points returns n records in sampling order; record i has
\* observation index i and estimate 4 * inside(i) / i, where inside(i) =
\* inside(i - 1) + flag(i) and inside(0) = 0.
C2_RecordsFollowFlags ==
    \A r \in Slots :
        Returned(r) =>
            /\ Height(run[r].df) = run[r].n
            /\ \A i \in 1 .. run[r].n :
                /\ run[r].df[labels.x][i] = i
                /\ run[r].df[labels.y][i] = ExactEstimate(InsideUpTo(r, i), i)
                /\ run[r].fn = "generate_estimates_polars" =>
                     /\ run[r].df["inside_cumsum"][i] = InsideUpTo(r, i)
                     /\ run[r].df["inside_cumsum"][i] =
                            (IF i = 1 THEN 0 ELSE run[r].df["inside_cumsum"][i - 1])
                            + (IF Flag(r, i) THEN 1 ELSE 0)

\* A run over MaxN points has returned with a point outside the circle
\* followed by a point inside it.
C2_Witness ==
    \E r \in Slots :
        /\ Returned(r)
        /\ run[r].n = MaxN
        /\ \E i \in 2 .. MaxN : Flag(r, i) /\ ~Flag(r, i - 1)

InRange(x) == IsFinite(x) /\ FLe(Zero, x) /\ FLe(x, FromInt(EstimateFactor))

\* C3: in every run result the cumulative inside-count is non-decreasing and
\* at most the index, and every running estimate lies in [0, 4]; the eager
\* loop keeps inside_circle <= observation_count after every iteration.
C3_CountsAndEstimatesBounded ==
    \A r \in Slots :
        /\ run[r].fn = "generate_estimates_for_loop" =>
             /\ 0 <= run[r].inside_circle
             /\ run[r].inside_circle <= run[r].observation_count
             /\ \A i \in 1 .. Len(run[r].estimates) :
                  /\ InRange(run[r].estimates[i])
                  /\ \E c \in 0 .. i :
                       /\ run[r].estimates[i] = ExactEstimate(c, i)
                       /\ i > 1 => \E b \in 0 .. c :
                                     run[r].estimates[i - 1] = ExactEstimate(b, i - 1)
        /\ (Returned(r) /\ run[r].fn = "generate_estimates_polars") =>
             \A i \in 1 .. Height(run[r].df) :
                  /\ InRange(run[r].df[labels.y][i])
                  /\ 0 <= run[r].df["inside_cumsum"][i]
                  /\ run[r].df["inside_cumsum"][i] <= i
                  /\ i > 1 => run[r].df["inside_cumsum"][i - 1]
                                 <= run[r].df["inside_cumsum"][i]

\* A collected deferred run and an eager loop in its last iteration, both
\* over MaxN points with at least one inside and one outside the circle.
C3_Witness ==
    /\ Returned("a") /\ run["a"].fn = "generate_estimates_polars"
    /\ run["a"].n = MaxN
    /\ InsideUpTo("a", MaxN) \in 1 .. (MaxN - 1)
    /\ run["b"].fn = "generate_estimates_for_loop" /\ run["b"].pc = "loop"
    /\ run["b"].observation_count = MaxN
    /\ run["b"].inside_circle \in 1 .. (MaxN - 1)

\* C4: with n = 0 both strategies return an empty result; no division by an
\* observation count of 0 happens and nothing is raised.
C4_ZeroSamplesEmptyResult ==
    \A r \in Slots :
        (Called(r) /\ run[r].n = 0) =>
            /\ run[r].raised = "none"
            /\ run[r].points = <<>>
            /\ run[r].estimates = <<>>
            /\ run[r].observation_count = 0
            /\ (run[r].pc = "done" /\ ~run[r].return_lazy_frame) =>
                 /\ {labels.x, labels.y} \subseteq DOMAIN run[r].df
                 /\ \A c \in DOMAIN run[r].df : run[r].df[c] = <<>>

\* Both strategies have returned from a call with n = 0.
C4_Witness ==
    /\ Returned("a") /\ run["a"].fn = "generate_estimates_for_loop" /\ run["a"].n = 0
    /\ Returned("b") /\ run["b"].fn = "generate_estimates_polars" /\ run["b"].n = 0

\* C5: generate_random_points returns exactly n points, each within the
\* bounding box of the polygon, and two invocations with the same seed (not
\* None) and the same n return the same sequence of points.
C5_SamplerDeterministic ==
    LET b == bounds(regions.square)
    IN /\ \A r \in Slots :
            Called(r) =>
                /\ Len(run[r].points) = run[r].n
                /\ \A i \in 1 .. Len(run[r].points) :
                     /\ b.minx <= run[r].points[i][1] /\ run[r].points[i][1] <= b.maxx
                     /\ b.miny <= run[r].points[i][2] /\ run[r].points[i][2] <= b.maxy
       /\ \A r1, r2 \in Slots :
            (Called(r1) /\ Called(r2) /\ SameInputs(r1, r2))
                => run[r1].points = run[r2].points

\* Two invocations with one seed and n = MaxN, returning points that are not
\* all the same point.
C5_Witness ==
    /\ Called("a") /\ Called("b") /\ SameInputs("a", "b")
    /\ run["a"].n = MaxN
    /\ run["a"].points = run["b"].points
    /\ \E i, j \in 1 .. MaxN : run["a"].points[i] # run["a"].points[j]

\* ---------------------------------------------------------------- negative counts
\* C11: a negative sample count passed to either estimate strategy (and so to
\* generate_random_points) is signaled as an error by the call itself, before
\* any point, record, plan or frame exists; it is not run as an empty run.
C11_NegativeCountRaises ==
    \A r \in Slots :
        (Called(r) /\ run[r].n < 0) =>
            /\ run[r].pc = "done"
            /\ run[r].raised = "ValueError"
            /\ run[r].points = <<>>
            /\ run[r].it = 0
            /\ run[r].observation_count = 0
            /\ run[r].estimates = <<>>
            /\ run[r].observations = <<>>
            /\ run[r].lf = NoLazyFrame
            /\ run[r].df = NoFrame

\* Both strategies have been called with a negative count, the deferred one
\* asked for its lazy frame, and both have raised.
C11_Witness ==
    /\ run["a"].fn = "generate_estimates_for_loop" /\ run["a"].n < 0
    /\ run["a"].raised = "ValueError"
    /\ run["b"].fn = "generate_estimates_polars" /\ run["b"].n < 0
    /\ run["b"].return_lazy_frame
    /\ run["b"].raised = "ValueError"

\* ---------------------------------------------------------------- long runs
\* C12: in the deferred strategy the flags are cast to 8-bit integers, and
\* the prefix sum over them never wraps: for every n, also with more than 127
\* points inside the circle, inside_cumsum(i) is the number of true flags
\* among the first i points, so it is non-negative and non-decreasing.
C12_CumsumNeverWraps ==
    \A r \in Slots :
        (Returned(r) /\ run[r].fn = "generate_estimates_polars") =>
            LET df == run[r].df
            IN /\ Len(df["inside_cumsum"]) = run[r].n
               /\ \A i \in 1 .. run[r].n :
                    /\ df["inside"][i] = (IF Flag(r, i) THEN 1 ELSE 0)
                    /\ df["inside_cumsum"][i] =
                           (IF i = 1 THEN 0 ELSE df["inside_cumsum"][i - 1])
                           + (IF Flag(r, i) THEN 1 ELSE 0)
                    /\ df["inside_cumsum"][i] >= 0
                    /\ df["inside_cumsum"][i] <= i
               /\ run[r].n > 0 =>
                    df["inside_cumsum"][run[r].n] = InsideUpTo(r, run[r].n)

\* A collected deferred run of MaxLong points with more than 127 of them
\* inside the circle.
C12_Witness ==
    \E r \in Slots :
        /\ Returned(r) /\ run[r].fn = "generate_estimates_polars"
        /\ run[r].n = MaxLong
        /\ run[r].df["inside_cumsum"][MaxLong] > 127
        /\ InsideUpTo(r, MaxLong) > 127

\* ---------------------------------------------------------------- aggregation claims
\* The aggregation has run and raised nothing.
Aggregated == multi.pc \in {"figure", "done"} /\ multi.raised = "none"

NumRuns == Len(multi.estimates_df_list)
RunPoints(r) == multi.estimates_df_list[r].data["geom"]
RunLen(r) == Len(RunPoints(r))

\* The number of the first i points of run r that lie inside the circle.
RunInside(r, i) ==
    Cardinality({j \in 1 .. i : contains(regions.circle, RunPoints(r)[j])})

\* The runs that have observation index i.
Present(i) == {r \in 1 .. NumRuns : RunLen(r) >= i}

RECURSIVE InsideTotal(_, _)
\* The inside-counts at index i, added up over those of the first k runs that
\* have the index.
InsideTotal(i, k) ==
    IF k = 0 THEN 0
    ELSE InsideTotal(i, k - 1) + (IF RunLen(k) >= i THEN RunInside(k, i) ELSE 0)

\* The float nearest to the real mean of 4 * inside(i) / i over the runs that
\* have index i.
ExactMean(i) ==
    RoundRat(EstimateFactor * InsideTotal(i, NumRuns), Cardinality(Present(i)) * i, 0)

Abs(k) == IF k < 0 THEN 0 - k ELSE k

RECURSIVE NormShift(_)
\* How many binary places a mantissa m > 0 is short of MantBits bits.
NormShift(m) == IF m >= Pow2(MantBits - 1) THEN 0 ELSE 1 + NormShift(2 * m)

\* a is within k units in the last place of the float x.
WithinUlps(a, x, k) ==
    IF ~IsFinite(a) \/ ~IsFinite(x) \/ x = Zero THEN a = x
    ELSE LET ue == x.e - NormShift(Abs(x.m))
             lo == Min({a.e, ue})
         IN Abs(a.m * Pow2(a.e - lo) - x.m * Pow2(x.e - lo)) <= k * Pow2(ue - lo)

\* The aggregate has one row per index 1 .. n, ascending, and row i holds the
\* mean of the estimates at index i of the runs that have the index: the
\* float sum divided by their number, so within one unit in the last place
\* per run of the exact mean, and the run's own estimate when there is one run.
MeanPerIndex(n) ==
    LET df == multi.multiple_estimate_df
    IN /\ DOMAIN df = {"observations", "pi_estimate"}
       /\ Height(df) = n
       /\ \A i \in 1 .. n :
            /\ df["observations"][i] = i
            /\ WithinUlps(df["pi_estimate"][i], ExactMean(i), Cardinality(Present(i)))
            /\ Cardinality(Present(i)) = 1 => df["pi_estimate"][i] = ExactMean(i)

\* C6: for m runs each of length n, the aggregate computed by
\* multiple_monte_carlo_example_polars has exactly n rows, one per observation
\* index 1 .. n in ascending order, and the value at index i is the mean of
\* estimate(i) over all m runs; every run handed to the aggregation has n rows.
C6_AggregateIsMean ==
    /\ multi.pc # "idle" =>
         /\ Len(multi.seed_list) = multi.n_simulations
         /\ \A r \in 1 .. NumRuns : RunLen(r) = multi.n_samples
    /\ Aggregated =>
         /\ NumRuns = multi.n_simulations
         /\ \A i \in 1 .. multi.n_samples : Present(i) = 1 .. multi.n_simulations
         /\ MeanPerIndex(multi.n_samples)

\* A call with MaxSims runs of MaxN samples has aggregated runs whose estimates
\* differ at some index.
C6_Witness ==
    /\ Aggregated
    /\ multi.seed # None
    /\ multi.n_simulations = MaxSims
    /\ multi.n_samples = MaxN
    /\ Height(multi.multiple_estimate_df) = MaxN
    /\ \E i \in 1 .. MaxN, r1, r2 \in 1 .. MaxSims : RunInside(r1, i) # RunInside(r2, i)

UnequalLengths == \E r1, r2 \in 1 .. NumRuns : RunLen(r1) # RunLen(r2)

LongestRun == Max({RunLen(r) : r \in 1 .. NumRuns})

RunEstimates(r) == collect(multi.estimates_df_list[r]).cols["pi_estimate"]

\* Every run has the same estimate at every index.
IdenticalRuns == \A r \in 1 .. NumRuns : RunEstimates(r) = RunEstimates(1)

C13_LabelsHonoured ==
    (multi.pc = "done" /\ multi.n_simulations >= 1) =>
        /\ multi.raised = "none"
        /\ DOMAIN multi.multiple_estimate_df = {labels.x, labels.y}

\* ---------------------------------------------------------------- point plot claims
\* C14: plot_monte_carlo_points clamps the requested count to the length of
\* the frame: for every requested observations value and every run result the
\* window is the first min(observations, length) records, and reading the
\* last record of the window never fails with an index error.
C14_WindowNeverFails ==
    plot.pc = "done" =>
        /\ plot.raised # "IndexError"
        /\ plot.raised = "none" =>
             LET shown == min(plot.requested, run["a"].n)
             IN plot.df_subset =
                  [c \in DOMAIN run["a"].df |-> SubSeq(run["a"].df[c], 1, shown)]

\* ---------------------------------------------------------------- seed hierarchy claims
SeedExample(r) == run[r].fn = "random_seed_example"

InSeedRange(seq, k) ==
    /\ Len(seq) = k
    /\ \A i \in 1 .. k : SeedLow <= seq[i] /\ seq[i] < SeedHigh

\* C9: for one top-level seed and one count k, every call derives the same k
\* child seeds, each in [1, 100); for one child seed and one years count,
\* every branch derives the same yearly seeds.
C9_SeedHierarchyDeterministic ==
    /\ \A r \in Slots :
         SeedExample(r) =>
            /\ InSeedRange(run[r].principle_seeds, run[r].n)
            /\ \A i \in 1 .. Len(run[r].yearly) :
                 InSeedRange(run[r].yearly[i], run[r].years)
    /\ \A r1, r2 \in Slots :
         (SeedExample(r1) /\ SeedExample(r2)) =>
            /\ (run[r1].seed = run[r2].seed /\ run[r1].n = run[r2].n)
                  => run[r1].principle_seeds = run[r2].principle_seeds
            /\ run[r1].years = run[r2].years =>
                 \A i \in 1 .. Len(run[r1].yearly), j \in 1 .. Len(run[r2].yearly) :
                    run[r1].principle_seeds[i] = run[r2].principle_seeds[j]
                        => run[r1].yearly[i] = run[r2].yearly[j]

\* Two calls with one top-level seed, MaxSims simulations and MaxYears years
\* have both returned, with child seeds that are not all equal.
C9_Witness ==
    /\ SeedExample("a") /\ SeedExample("b")
    /\ run["a"].pc = "done" /\ run["b"].pc = "done"
    /\ run["a"].seed = run["b"].seed
    /\ run["a"].n = MaxSims /\ run["b"].n = MaxSims
    /\ run["a"].years = MaxYears /\ run["b"].years = MaxYears
    /\ run["a"].yearly = run["b"].yearly
    /\ \E i, j \in 1 .. MaxSims : run["a"].principle_seeds[i] # run["a"].principle_seeds[j]

\* C10: a run's result depends on its own seed and count only, whatever other
\* runs and seed branches did before or between its steps; the same holds for
\* the yearly seeds of a branch; the process-wide generator and the region
\* pair are never written.
C10_RunsIsolated ==
    /\ global_rng = [key |-> 0, pos |-> 0, shared |-> TRUE]
    /\ regions = [square |-> SQUARE, circle |-> INSCRIBED_CIRCLE]
    /\ \A r1, r2 \in Slots :
         /\ ( /\ Returned(r1) /\ Returned(r2)
              /\ run[r1].fn = run[r2].fn
              /\ SameInputs(r1, r2) )
            => run[r1].df = run[r2].df
         /\ ( /\ Called(r1) /\ Called(r2)
              /\ run[r1].fn = run[r2].fn
              /\ SameInputs(r1, r2)
              /\ run[r1].it = run[r2].it )
            => /\ run[r1].inside_circle = run[r2].inside_circle
               /\ run[r1].estimates = run[r2].estimates
               /\ run[r1].lf = run[r2].lf
         /\ ( /\ SeedExample(r1) /\ SeedExample(r2)
              /\ run[r1].years = run[r2].years )
            => \A i \in 1 .. Len(run[r1].yearly), j \in 1 .. Len(run[r2].yearly) :
                  run[r1].principle_seeds[i] = run[r2].principle_seeds[j]
                      => run[r1].yearly[i] = run[r2].yearly[j]

\* An eager run over MaxN points is in its loop while a seed example started
\* after it has already derived the yearly seeds of a branch.
C10_Witness ==
    /\ run["a"].fn = "generate_estimates_for_loop"
    /\ run["a"].pc = "loop"
    /\ run["a"].n = MaxN
    /\ run["a"].it \in 1 .. (MaxN - 1)
    /\ SeedExample("b")
    /\ run["b"].years = MaxYears
    /\ Len(run["b"].yearly) >= 1

====
